---- MODULE Spec2Model ----
(***************************************************************************)
(* Model of include/noether/Layers.h: ConvLayer and FullyConnectedLayer    *)
(* (constructor and forward()) over the 3D tensor Array3D.                 *)
(*                                                                         *)
(* One behaviour follows one layer: the driver owns a predecessor whose    *)
(* output tensor is `pred`, constructs a ConvLayer or a FullyConnectedLayer *)
(* on it, loads weights, and calls forward() repeatedly.                   *)
(*                                                                         *)
(* Array3D lives in noether/Tensor.h, which is not part of the sources at  *)
(* hand; its operations are modelled from the design document.  ElemTy is  *)
(* modelled by the integers.  size_t arithmetic is modular; the modulus is *)
(* 2^SizeBits.                                                             *)
(***************************************************************************)
EXTENDS Integers, Sequences, FiniteSets, TLC

\* ---------------------------------------------------------------- bounds
MaxDim      == 3     \* predecessor width and height range over 1..MaxDim
MaxInDepth  == 2     \* predecessor depth ranges over 1..MaxInDepth
MaxOutDepth == 2     \* outDepth ranges over 1..MaxOutDepth
MaxFilter   == 3     \* filterSize ranges over 1..MaxFilter
MaxStride   == 2     \* stride ranges over 1..MaxStride
MaxPad      == 1     \* pad ranges over 0..MaxPad
MaxCalls    == 2     \* forward() calls between two changes of the operands
SizeBits    == 16    \* modelled width of size_t

SizeMod    == 2 ^ SizeBits
\* reset() cannot allocate a tensor with a dimension this large
AllocLimit == SizeMod \div 4

\* The ways a build may treat an element access outside the tensor (undefined
\* behaviour): a bounds assertion aborts, or the flat offset is computed from
\* the coordinates in one of the two canonical layouts and used unchecked.
\* Which of them the build at hand does shows at its first such access; until
\* then the variable build is "unobserved".
Builds == {"checked", "depthFastest", "xFastest"}

\* Contents of freshly allocated storage (indeterminate).
JunkVals == {0, 1}

InputPatterns  == {"ones", "ramp"}
\* The weights the driver loads: a pattern for the filters and one for the bias.
WeightPatterns == {[filters |-> "ones", bias |-> "zero"],
                   [filters |-> "ramp", bias |-> "ramp"]}

\* ------------------------------------------------------------- Array3D
Coords(sx, sy, sz) == (0 .. (sx - 1)) \X (0 .. (sy - 1)) \X (0 .. (sz - 1))

\* Array3D::reset(sx, sy, sz): fresh storage of sx*sy*sz elements, addressed
\* by coordinate.
reset(sx, sy, sz, junk) ==
  [sx |-> sx, sy |-> sy, sz |-> sz,
   data |-> [c \in Coords(sx, sy, sz) |-> junk]]

\* Array3D default-constructed: no dimensions, no storage.
EmptyTensor == reset(0, 0, 0, 0)

\* reset() fails when a dimension is unreasonable.
CanAlloc(sx, sy, sz) == sx < AllocLimit /\ sy < AllocLimit /\ sz < AllocLimit

dims(t) == <<t.sx, t.sy, t.sz>>

size(t) == (t.sx * t.sy * t.sz) % SizeMod

\* Array3D::isInBounds(x, y): the arguments are unsigned.
isInBounds(t, x, y) == x < t.sx /\ y < t.sy

\* Precondition of Array3D::get(x, y, z).
InBounds3(t, x, y, z) == x < t.sx /\ y < t.sy /\ z < t.sz

\* Flat offset of <<x, y, z>> in the layout of the build.
FlatIdx(b, t, x, y, z) ==
  IF b = "xFastest" THEN x + t.sx * (y + t.sy * z)
  ELSE (t.sx * y + x) * t.sz + z

\* The coordinate stored at flat offset k < size(t) in the layout of the build.
CoordOfFlat(b, t, k) ==
  IF b = "xFastest"
  THEN <<k % t.sx, (k \div t.sx) % t.sy, k \div (t.sx * t.sy)>>
  ELSE <<(k \div t.sz) % t.sx, k \div (t.sz * t.sx), k % t.sz>>

\* Values the driver stores in a tensor.
PatternVal(p, x, y, z) ==
  CASE p = "ones" -> 1
    [] p = "zero" -> 0
    [] OTHER      -> 1 + ((x + 2 * y + z) % 3)

Fill(t, p) ==
  [t EXCEPT !.data = [c \in DOMAIN t.data |-> PatternVal(p, c[1], c[2], c[3])]]

\* ------------------------------------------------------------- state
VARIABLES
  build,        \* how this build treats an out-of-range element access
                \* ("unobserved" until the first one)
  pred,         \* the predecessor's output tensor (input_->getOutput())
  kind,         \* "none" before construction, then "conv" or "fc"
  status,       \* "unbuilt", "ready", "fatal", "segv", "badalloc", "aborted"
  args,         \* the arguments the constructor was called with
  input_,       \* "null" or "pred"
  filters_,     \* sequence of tensors
  bias_,
  output_,
  filterSize_,
  stride_,
  pad_,
  derefd,       \* the constructor dereferenced its input argument
  calls,        \* forward() calls since the operands last changed
  written,      \* output elements stored into by the last forward()
  oob,          \* out-of-range get(x, y, z) executed by the last forward()
  fcIdx,        \* idx at the end of the triple loop, per unit, last forward()
  heapHit       \* the last forward() stored outside the output's storage

vars == <<build, pred, kind, status, args, input_, filters_, bias_, output_,
          filterSize_, stride_, pad_, derefd, calls, written, oob, fcIdx,
          heapHit>>

NoArgs == [input |-> "null", outDepth |-> 0, filterSize |-> 0, stride |-> 0,
           pad |-> 0]

Init ==
  /\ build = "unobserved"
  /\ \E sx \in 1 .. MaxDim, sy \in 1 .. MaxDim, sz \in 1 .. MaxInDepth,
        p \in InputPatterns :
       pred = Fill(reset(sx, sy, sz, 0), p)
  /\ kind = "none"
  /\ status = "unbuilt"
  /\ args = NoArgs
  /\ input_ = "null"
  /\ filters_ = <<>>
  /\ bias_ = EmptyTensor
  /\ output_ = EmptyTensor
  /\ filterSize_ = 0
  /\ stride_ = 0
  /\ pad_ = 0
  /\ derefd = FALSE
  /\ calls = 0
  /\ written = {}
  /\ oob = {}
  /\ fcIdx = <<>>
  /\ heapHit = FALSE

\* -------------------------------------------------------- constructors
\* Faulty variant of AssertPad: the padding check is missing.
AssertPad_off(pad) == TRUE

\* assert(pad == 0 && "Unsupported pad size")
AssertPad(pad) == pad = 0

\* assert(input && "Invalid input layer")
AssertInput(input) == input # "null"

\* Faulty variant of ConvOutDim: the "+ 1" is missing.
ConvOutDim_short(in, filterSize, stride, pad) ==
  ((((in + pad * 2) % SizeMod) - filterSize) % SizeMod) \div stride

\* ((in + pad_ * 2 - filterSize) / stride + 1) in size_t arithmetic
ConvOutDim(in, filterSize, stride, pad) ==
  (((((in + pad * 2) % SizeMod) - filterSize) % SizeMod) \div stride + 1)
    % SizeMod

\* What a constructor leaves behind when it stops before shaping anything.
Unshaped(st, d) ==
  [status |-> st, derefd |-> d, output |-> EmptyTensor, bias |-> EmptyTensor,
   filters |-> <<>>]

ConvLayerCtor(in, input, outDepth, filterSize, stride, pad, junk) ==
  IF ~AssertPad(pad) THEN Unshaped("fatal", FALSE)
  ELSE IF ~AssertInput(input) THEN Unshaped("fatal", FALSE)
  ELSE IF input = "null" THEN Unshaped("segv", TRUE)
  ELSE LET outsx == ConvOutDim(in.sx, filterSize, stride, pad)
           outsy == ConvOutDim(in.sy, filterSize, stride, pad)
       IN IF ~CanAlloc(outsx, outsy, outDepth) THEN Unshaped("badalloc", TRUE)
          ELSE [status  |-> "ready",
                derefd  |-> TRUE,
                output  |-> reset(outsx, outsy, outDepth, junk),
                bias    |-> reset(1, 1, outDepth, junk),
                filters |-> [i \in 1 .. outDepth |->
                               reset(filterSize, filterSize, in.sz, junk)]]

\* Faulty variant of FCNumInputs: the depth is left out of the element count.
FCNumInputs_flat(in) == (in.sx * in.sy) % SizeMod

\* size_t numInputs = input_->size()
FCNumInputs(in) == size(in)

FullyConnectedLayerCtor(in, input, outDepth, junk) ==
  IF ~AssertInput(input) THEN Unshaped("fatal", FALSE)
  ELSE IF input = "null" THEN Unshaped("segv", TRUE)
  ELSE LET numInputs == FCNumInputs(in)
       IN IF ~CanAlloc(1, 1, numInputs) THEN Unshaped("badalloc", TRUE)
          ELSE [status  |-> "ready",
                derefd  |-> TRUE,
                output  |-> reset(1, 1, outDepth, junk),
                bias    |-> reset(1, 1, outDepth, junk),
                filters |-> [i \in 1 .. outDepth |->
                               reset(1, 1, numInputs, junk)]]

ConstructConv ==
  /\ kind = "none"
  /\ \E input \in {"null", "pred"}, outDepth \in 1 .. MaxOutDepth,
        filterSize \in 1 .. MaxFilter, stride \in 1 .. MaxStride,
        pad \in 0 .. MaxPad, junk \in JunkVals :
       LET r == ConvLayerCtor(pred, input, outDepth, filterSize, stride, pad,
                              junk)
       IN /\ kind' = "conv"
          /\ args' = [input |-> input, outDepth |-> outDepth,
                      filterSize |-> filterSize, stride |-> stride,
                      pad |-> pad]
          /\ input_' = input
          /\ filterSize_' = filterSize
          /\ stride_' = stride
          /\ pad_' = pad
          /\ status' = r.status
          /\ derefd' = r.derefd
          /\ output_' = r.output
          /\ bias_' = r.bias
          /\ filters_' = r.filters
  /\ UNCHANGED <<build, pred, calls, written, oob, fcIdx, heapHit>>

ConstructFC ==
  /\ kind = "none"
  /\ \E input \in {"null", "pred"}, outDepth \in 1 .. MaxOutDepth,
        junk \in JunkVals :
       LET r == FullyConnectedLayerCtor(pred, input, outDepth, junk)
       IN /\ kind' = "fc"
          /\ args' = [NoArgs EXCEPT !.input = input, !.outDepth = outDepth]
          /\ input_' = input
          /\ status' = r.status
          /\ derefd' = r.derefd
          /\ output_' = r.output
          /\ bias_' = r.bias
          /\ filters_' = r.filters
  /\ UNCHANGED <<build, pred, filterSize_, stride_, pad_, calls, written, oob,
                 fcIdx, heapHit>>

\* ------------------------------------------------------ element access
\* The running state of one forward() call:
\*   out      the output tensor            sum  the accumulator
\*   written  output elements stored into  idx  the fully-connected flat index
\*   oob      out-of-range accesses made   idxs idx at loop end, per unit
\*   aborted  a bounds assertion fired; nothing further executes
\*   heap     a store went outside the output's storage
Machine(out) ==
  [out |-> out, written |-> {}, oob |-> {}, aborted |-> FALSE, heap |-> FALSE,
   sum |-> 0, idx |-> 0, idxs |-> <<>>]

\* get(x, y, z) on tensor t, named tn: the access is recorded when it is out
\* of range, and a checked build stops there.
Access(m, b, tn, t, x, y, z) ==
  IF m.aborted \/ InBounds3(t, x, y, z) THEN m
  ELSE [m EXCEPT !.oob = @ \cup {<<tn, x, y, z>>},
                 !.aborted = (b = "checked")]

\* The value get(x, y, z) yields: an out-of-range read of an unchecked build
\* yields the element at the computed flat offset, or g when the offset is
\* outside the storage.
ReadVal(b, t, x, y, z, g) ==
  IF InBounds3(t, x, y, z) THEN t.data[<<x, y, z>>]
  ELSE IF FlatIdx(b, t, x, y, z) < t.sx * t.sy * t.sz
       THEN t.data[CoordOfFlat(b, t, FlatIdx(b, t, x, y, z))]
       ELSE g

\* Faulty variant of StoreElem: "+=" in place of "=".
StoreElem_acc(old, sum) == old + sum

\* The value "lhs = sum" leaves in the element.
StoreElem(old, sum) == sum

\* output_.get(x, y, z) = sum
Store(m, b, x, y, z) ==
  LET m1 == Access(m, b, "output", m.out, x, y, z)
      k  == FlatIdx(b, m.out, x, y, z)
      c  == IF InBounds3(m.out, x, y, z) THEN <<x, y, z>>
            ELSE CoordOfFlat(b, m.out, k)
  IN IF m1.aborted THEN m1
     ELSE IF InBounds3(m.out, x, y, z) \/ k < m.out.sx * m.out.sy * m.out.sz
          THEN [m1 EXCEPT !.out.data[c] = StoreElem(@, m.sum),
                          !.written = @ \cup {c}]
          ELSE [m1 EXCEPT !.heap = TRUE]

\* ------------------------------------------------- ConvLayer::forward
\* The tensor whose isInBounds() admits a tap.
TapInBounds(out, in, ox, oy) == isInBounds(out, ox, oy)

\* The bound of the inner position loop, "ax < outy".
ConvAxLimit(outx, outy) == outy

\* for (fd = 0; fd < inz; fd++) sum += currFilter.get(..) * inputBuffer.get(..)
RECURSIVE ConvChannelLoop(_, _, _, _, _, _, _, _)
ConvChannelLoop(m, L, d, fx, fy, ox, oy, fd) ==
  IF m.aborted \/ fd >= L.in.sz THEN m
  ELSE LET f  == L.filters[d + 1]
           m1 == Access(m, L.build, "filter", f, fx, fy, fd)
           m2 == Access(m1, L.build, "input", L.in, ox, oy, fd)
           m3 == IF m2.aborted THEN m2
                 ELSE [m2 EXCEPT !.sum =
                         @ + ReadVal(L.build, f, fx, fy, fd, L.g)
                             * ReadVal(L.build, L.in, ox, oy, fd, L.g)]
       IN ConvChannelLoop(m3, L, d, fx, fy, ox, oy, fd + 1)

\* for (fy ...) for (fx ...) { ox = x + fx; oy = y + fy; if (isInBounds) ... }
RECURSIVE ConvTapLoop(_, _, _, _, _, _, _)
ConvTapLoop(m, L, d, x, y, fy, fx) ==
  IF m.aborted \/ fy >= L.filterSize THEN m
  ELSE IF fx >= L.filterSize THEN ConvTapLoop(m, L, d, x, y, fy + 1, 0)
  ELSE LET ox == (x + fx) % SizeMod
           oy == (y + fy) % SizeMod
           m1 == IF TapInBounds(m.out, L.in, ox, oy)
                 THEN ConvChannelLoop(m, L, d, fx, fy, ox, oy, 0)
                 ELSE m
       IN ConvTapLoop(m1, L, d, x, y, fy, fx + 1)

\* sum += bias_.get(d): flat element d of the (1,1,D) tensor
AddBias(m, L, d) ==
  LET m1 == Access(m, L.build, "bias", L.bias, 0, 0, d)
  IN IF m1.aborted THEN m1
     ELSE [m1 EXCEPT !.sum = @ + ReadVal(L.build, L.bias, 0, 0, d, L.g)]

\* for (d ...) for (ay ...; y += stride_) for (ax ...; x += stride_) { ... }
RECURSIVE ConvPosLoop(_, _, _, _, _)
ConvPosLoop(m, L, d, ay, ax) ==
  IF m.aborted \/ d >= m.out.sz THEN m
  ELSE IF ay >= m.out.sy THEN ConvPosLoop(m, L, d + 1, 0, 0)
  ELSE IF ax >= ConvAxLimit(m.out.sx, m.out.sy)
       THEN ConvPosLoop(m, L, d, ay + 1, 0)
  ELSE LET x  == (ax * L.stride) % SizeMod
           y  == (ay * L.stride) % SizeMod
           m1 == ConvTapLoop([m EXCEPT !.sum = 0], L, d, x, y, 0, 0)
           m2 == AddBias(m1, L, d)
           m3 == Store(m2, L.build, ax, ay, d)
       IN ConvPosLoop(m3, L, d, ay, ax + 1)

ConvForwardRun(L, out) == ConvPosLoop(Machine(out), L, 0, 0, 0)

\* -------------------------------------- FullyConnectedLayer::forward
\* The coordinate the result of unit i is stored at, "output_.get(1,1,i)".
FCOutCoord(i) == <<1, 1, i>>

\* for (x ...) for (y ...) for (z ...) sum += inputBuffer.get(x,y,z) * currFilter[idx++]
RECURSIVE FCInputLoop(_, _, _, _, _, _)
FCInputLoop(m, L, i, x, y, z) ==
  IF m.aborted \/ x >= L.in.sx THEN m
  ELSE IF y >= L.in.sy THEN FCInputLoop(m, L, i, x + 1, 0, 0)
  ELSE IF z >= L.in.sz THEN FCInputLoop(m, L, i, x, y + 1, 0)
  ELSE LET f  == L.filters[i + 1]
           m1 == Access(m, L.build, "input", L.in, x, y, z)
           m2 == Access(m1, L.build, "filter", f, 0, 0, m.idx)
           m3 == IF m2.aborted THEN m2
                 ELSE [m2 EXCEPT !.sum =
                         @ + ReadVal(L.build, L.in, x, y, z, L.g)
                             * ReadVal(L.build, f, 0, 0, m.idx, L.g),
                                 !.idx = @ + 1]
       IN FCInputLoop(m3, L, i, x, y, z + 1)

\* for (i = 0; i < outz; i++) { ...; assert(idx == numInputs); ... }
RECURSIVE FCUnitLoop(_, _, _)
FCUnitLoop(m, L, i) ==
  IF m.aborted \/ i >= m.out.sz THEN m
  ELSE LET numInputs == size(L.in)
           m1 == FCInputLoop([m EXCEPT !.sum = 0, !.idx = 0], L, i, 0, 0, 0)
           m2 == IF m1.aborted THEN m1
                 ELSE [m1 EXCEPT !.idxs = Append(@, m1.idx),
                                 !.aborted = (m1.idx # numInputs)]
           m3 == AddBias(m2, L, i)
           c  == FCOutCoord(i)
           m4 == Store(m3, L.build, c[1], c[2], c[3])
       IN FCUnitLoop(m4, L, i + 1)

FCForwardRun(L, out) == FCUnitLoop(Machine(out), L, 0)

\* ------------------------------------------------------------ actions
Operands(b, g) ==
  [in |-> pred, filters |-> filters_, bias |-> bias_,
   filterSize |-> filterSize_, stride |-> stride_, build |-> b, g |-> g]

\* The treatments of an out-of-range access this build may still show.
Candidates == IF build = "unobserved" THEN Builds ELSE {build}

\* An out-of-range read that took its value from outside the storage.
ReadOutside(m) == \E a \in m.oob : a[1] # "output"

Finish(r, b) ==
  /\ build' = b
  /\ output_' = r.out
  /\ written' = r.written
  /\ oob' = r.oob
  /\ fcIdx' = r.idxs
  /\ heapHit' = r.heap
  /\ status' = IF r.aborted THEN "aborted" ELSE "ready"
  /\ calls' = calls + 1
  /\ UNCHANGED <<pred, kind, args, input_, filters_, bias_, filterSize_,
                 stride_, pad_, derefd>>

\* A call that stays in range runs the same in every build; one that does not
\* runs as the build treats the access, with g read from outside the storage.
ConvForward ==
  /\ kind = "conv"
  /\ status = "ready"
  /\ calls < MaxCalls
  /\ LET r0 == ConvForwardRun(Operands("checked", 0), output_)
     IN IF r0.oob = {} THEN Finish(r0, build)
        ELSE \E b \in Candidates :
               LET rb == ConvForwardRun(Operands(b, 0), output_)
               IN \E g \in (IF ReadOutside(rb) THEN JunkVals ELSE {0}) :
                    Finish(IF g = 0 THEN rb
                           ELSE ConvForwardRun(Operands(b, g), output_), b)

FCForward ==
  /\ kind = "fc"
  /\ status = "ready"
  /\ calls < MaxCalls
  /\ LET r0 == FCForwardRun(Operands("checked", 0), output_)
     IN IF r0.oob = {} THEN Finish(r0, build)
        ELSE \E b \in Candidates :
               LET rb == FCForwardRun(Operands(b, 0), output_)
               IN \E g \in (IF ReadOutside(rb) THEN JunkVals ELSE {0}) :
                    Finish(IF g = 0 THEN rb
                           ELSE FCForwardRun(Operands(b, g), output_), b)

\* The driver's view of the operands: none of these is part of forward().
Changed ==
  /\ calls' = 0
  /\ written' = {}
  /\ oob' = {}
  /\ fcIdx' = <<>>
  /\ heapHit' = FALSE

\* The predecessor computes a new output of the same shape.
SetInput ==
  /\ status = "ready"
  /\ \E p \in InputPatterns : pred' = Fill(pred, p)
  /\ pred' # pred
  /\ Changed
  /\ UNCHANGED <<build, kind, status, args, input_, filters_, bias_, output_,
                 filterSize_, stride_, pad_, derefd>>

\* The driver loads the filter weights and the bias.
LoadWeights ==
  /\ status = "ready"
  /\ \E w \in WeightPatterns :
       /\ filters_' = [i \in DOMAIN filters_ |-> Fill(filters_[i], w.filters)]
       /\ bias_' = Fill(bias_, w.bias)
  /\ <<filters_', bias_'>> # <<filters_, bias_>>
  /\ Changed
  /\ UNCHANGED <<build, pred, kind, status, args, input_, output_,
                 filterSize_, stride_, pad_, derefd>>

Next ==
  \/ ConstructConv
  \/ ConstructFC
  \/ ConvForward
  \/ FCForward
  \/ SetInput
  \/ LoadWeights

Spec == Init /\ [][Next]_vars

TypeOK ==
  /\ build \in Builds \cup {"unobserved"}
  /\ kind \in {"none", "conv", "fc"}
  /\ status \in {"unbuilt", "ready", "fatal", "segv", "badalloc", "aborted"}
  /\ calls \in 0 .. MaxCalls

\* ------------------------------------------------------------- claims
RECURSIVE SumSeq(_)
SumSeq(q) == IF q = <<>> THEN 0 ELSE Head(q) + SumSeq(Tail(q))

\* The constructor was given a usable predecessor, no padding and a filter
\* that fits the predecessor.
ValidConv ==
  /\ kind = "conv"
  /\ args.input = "pred"
  /\ args.pad = 0
  /\ args.filterSize <= pred.sx
  /\ args.filterSize <= pred.sy

\* forward() has returned at least once since the operands last changed.
Forwarded == calls >= 1 /\ status = "ready"

\* C1: a ConvLayer constructed with pad 0 on a (W,H,Cin) predecessor with
\* 1 <= F <= W, F <= H has output shape (floor((W-F)/S)+1, floor((H-F)/S)+1, D),
\* bias shape (1,1,D) and exactly D filters of shape (F,F,Cin).
C1_ConvShape ==
  ValidConv =>
    /\ status \in {"ready", "aborted"}
    /\ dims(output_) = <<(pred.sx - args.filterSize) \div args.stride + 1,
                         (pred.sy - args.filterSize) \div args.stride + 1,
                         args.outDepth>>
    /\ dims(bias_) = <<1, 1, args.outDepth>>
    /\ Len(filters_) = args.outDepth
    /\ \A i \in 1 .. Len(filters_) :
         dims(filters_[i]) = <<args.filterSize, args.filterSize, pred.sz>>

C1_Witness ==
  /\ ValidConv
  /\ status = "ready"
  /\ calls = 0
  /\ args.stride = 2
  /\ (pred.sx - args.filterSize) % args.stride = 1
  /\ args.outDepth = 2
  /\ pred.sx # pred.sy
  /\ output_.sx # output_.sy

\* The value the claim C2 gives to output element (ax, ay, d).
ConvExpected(ax, ay, d) ==
  LET F   == filterSize_
      Cin == pred.sz
      Term(k) ==
        LET fd == k % Cin
            fx == (k \div Cin) % F
            fy == k \div (Cin * F)
            ox == ax * stride_ + fx
            oy == ay * stride_ + fy
        IN IF ox < pred.sx /\ oy < pred.sy
           THEN filters_[d + 1].data[<<fx, fy, fd>>] * pred.data[<<ox, oy, fd>>]
           ELSE 0
  IN bias_.data[<<0, 0, d>>] + SumSeq([t \in 1 .. F * F * Cin |-> Term(t - 1)])

\* C2: after ConvLayer::forward() every output element (ax, ay, d) equals
\* bias[d] plus the sum over all filter taps and input channels of
\* filter * input, a tap being skipped only when it lies outside the INPUT.
C2_ConvValue ==
  (ValidConv /\ Forwarded) =>
    \A c \in Coords(output_.sx, output_.sy, output_.sz) :
      output_.data[c] = ConvExpected(c[1], c[2], c[3])

\* C3: each ConvLayer::forward() call stores into every element of the
\* output tensor, whatever its shape.
C3_ConvOverwrites ==
  (ValidConv /\ Forwarded) =>
    written = Coords(output_.sx, output_.sy, output_.sz)

\* C4: with pad 0, a filter larger than the predecessor's width or height is
\* rejected by the constructor; no output tensor is shaped.
C4_OversizeRejected ==
  (/\ kind = "conv"
   /\ args.input = "pred"
   /\ args.pad = 0
   /\ (args.filterSize > pred.sx \/ args.filterSize > pred.sy)) =>
    /\ status \in {"fatal", "badalloc"}
    /\ output_ = EmptyTensor

\* C5: a constructor given a non-zero pad or a null predecessor stops with a
\* fatal error before dereferencing the predecessor and before shaping the
\* output, the bias or any filter.
C5_FailFast ==
  (kind # "none" /\ (args.pad # 0 \/ args.input = "null")) =>
    /\ status = "fatal"
    /\ ~derefd
    /\ output_ = EmptyTensor
    /\ bias_ = EmptyTensor
    /\ filters_ = <<>>

C5_Witness ==
  /\ kind = "conv"
  /\ args.pad # 0
  /\ args.input = "pred"
  /\ args.filterSize <= pred.sx
  /\ args.filterSize <= pred.sy
  /\ status = "fatal"

\* The value the claim C6 gives to output unit i.
FCExpected(i) ==
  LET Term(k) ==
        LET z == k % pred.sz
            y == (k \div pred.sz) % pred.sy
            x == k \div (pred.sz * pred.sy)
        IN pred.data[<<x, y, z>>] * filters_[i + 1].data[<<0, 0, k>>]
  IN bias_.data[<<0, 0, i>>]
     + SumSeq([t \in 1 .. pred.sx * pred.sy * pred.sz |-> Term(t - 1)])

\* C6: after FullyConnectedLayer::forward() element i of the (1,1,D) output
\* equals bias[i] plus the dot product of the predecessor output, read x
\* outer, y middle, z inner, with filter i.
C6_FCValue ==
  (kind = "fc" /\ Forwarded) =>
    /\ dims(output_) = <<1, 1, args.outDepth>>
    /\ \A i \in 0 .. (args.outDepth - 1) :
         output_.data[<<0, 0, i>>] = FCExpected(i)

C8_IdentityConv ==
  (/\ ValidConv
   /\ Forwarded
   /\ args.filterSize = 1
   /\ args.stride = 1
   /\ args.outDepth = 1
   /\ pred.sz = 1
   /\ bias_.data[<<0, 0, 0>>] = 0
   /\ filters_[1].data[<<0, 0, 0>>] = 1) =>
    /\ dims(output_) = dims(pred)
    /\ \A c \in Coords(pred.sx, pred.sy, 1) : output_.data[c] = pred.data[c]

\* C9: no forward() call of a validly constructed layer executes an element
\* access outside the accessed tensor.
C9_NoOutOfRange ==
  ((ValidConv \/ (kind = "fc" /\ args.input = "pred")) /\ calls >= 1) =>
    oob = {}

\* C10: in FullyConnectedLayer::forward() the flat index ends every triple
\* loop at numInputs = predecessor.size() = inx*iny*inz, it never passes the
\* length of the filter, and the first unit always gets that far.
C10_FlatIndex ==
  (kind = "fc" /\ calls >= 1) =>
    /\ Len(fcIdx) >= 1
    /\ \A i \in 1 .. Len(fcIdx) :
         /\ fcIdx[i] = pred.sx * pred.sy * pred.sz
         /\ fcIdx[i] = size(pred)
         /\ fcIdx[i] <= filters_[i].sz
    /\ \A a \in oob : a[1] = "output"

C10_Witness ==
  /\ kind = "fc"
  /\ calls >= 1
  /\ Len(fcIdx) = 2
  /\ pred.sz = 2
  /\ pred.sx > 1
  /\ pred.sy > 1

====
